---- MODULE Spec2Model ----
(***************************************************************************)
(* Model of youtube_comment_downloader/__init__.py: the command `main`     *)
(* that pulls comment records from a lazy generator with one record of     *)
(* lookahead and writes them to the output file, and the encoder           *)
(* `to_json`.  Text is modelled as a sequence of one-character strings.    *)
(***************************************************************************)
EXTENDS Integers, Sequences, FiniteSets, TLC

\* ---------------------------------------------------------------- bounds
MaxLen == 3        \* longest producer sequence explored
MaxLimit == 3      \* largest --limit value explored
MaxPulls == 5      \* pulls explored on a generator that never ends

\* ------------------------------------------------- Python values, options
\* Optional[T]: None is the empty tuple, a value v is <<v>>.
None == <<>>

Some(v) == <<v>>

\* Truthiness of an Optional[str] / str (None and "" are falsy).
TruthyStr(o) == o # None /\ o[1] # ""

\* Truthiness of an Optional[int] (None and 0 are falsy).
TruthyInt(o) == o # None /\ o[1] # 0

\* Truthiness of an Optional[dict] (None and {} are falsy).
TruthyDict(o) == o # None /\ o[1] # <<>>

\* ------------------------------------------------------ records (comments)
\* A record is an ordered mapping: a sequence of items [k, t, v] where t is
\* "n" (number), "s" (one-character string) or "x" (a value json cannot
\* serialise).
RecEmpty == <<>>

RecA == << [k |-> "a", t |-> "n", v |-> "1"] >>

RecB == << [k |-> "b", t |-> "n", v |-> "2"], [k |-> "a", t |-> "s", v |-> "é"] >>

RecBad == << [k |-> "a", t |-> "x", v |-> "?"] >>

Records == {RecEmpty, RecA, RecB, RecBad}

\* -------------------------------------------------------------- text
Spaces(n) == [i \in 1..n |-> " "]

RECURSIVE Flatten(_)
Flatten(ss) == IF ss = <<>> THEN <<>> ELSE Head(ss) \o Flatten(Tail(ss))

\* str.splitlines(True): cut after every "\n", keeping the line ends.
RECURSIVE SplitLines(_, _)
SplitLines(s, acc) ==
    IF s = <<>> THEN (IF acc = <<>> THEN <<>> ELSE <<acc>>)
    ELSE IF Head(s) = "\n" THEN <<Append(acc, "\n")>> \o SplitLines(Tail(s), <<>>)
    ELSE SplitLines(Tail(s), Append(acc, Head(s)))

\* -------------------------------------------------------------- json.dumps
\* json raises TypeError on a value it cannot serialise.
Serializable(rec) == \A i \in 1..Len(rec) : rec[i].t # "x"

\* The characters outside ASCII that occur in the records.
NonAscii == {"é"}

\* One character of a string: escaped as \uXXXX when ensure_ascii is set.
JsonChar(c, ensure_ascii) ==
    IF ensure_ascii /\ c \in NonAscii THEN <<"\\", "u", "0", "0", "e", "9">> ELSE <<c>>

\* The value encoded with ensure_ascii left at its default, True.
JsonValueEscaped(it) ==
    IF it.t = "s" THEN <<"\"">> \o JsonChar(it.v, TRUE) \o <<"\"">> ELSE <<it.v>>

\* line 14: ensure_ascii=False.
JsonValue(it) ==
    IF it.t = "s" THEN <<"\"">> \o JsonChar(it.v, FALSE) \o <<"\"">> ELSE <<it.v>>

JsonItem(it) == <<"\"", it.k, "\"", ":", " ">> \o JsonValue(it)

\* json.dumps(rec, ensure_ascii=False, indent=None): separators (", ", ": ").
RECURSIVE JsonItemsFlat(_)
JsonItemsFlat(rec) ==
    IF rec = <<>> THEN <<>>
    ELSE IF Len(rec) = 1 THEN JsonItem(rec[1])
    ELSE JsonItem(rec[1]) \o <<",", " ">> \o JsonItemsFlat(Tail(rec))

\* json.dumps(rec, ensure_ascii=False, indent=n): one item per line.
RECURSIVE JsonItemsIndented(_, _)
JsonItemsIndented(rec, n) ==
    IF rec = <<>> THEN <<>>
    ELSE IF Len(rec) = 1 THEN Spaces(n) \o JsonItem(rec[1]) \o <<"\n">>
    ELSE Spaces(n) \o JsonItem(rec[1]) \o <<",", "\n">> \o JsonItemsIndented(Tail(rec), n)

\* indent is None (<<>>) or <<n>>.
JsonDumps(rec, indent) ==
    IF indent = None THEN <<"{">> \o JsonItemsFlat(rec) \o <<"}">>
    ELSE IF rec = <<>> THEN <<"{", "}">>
    ELSE <<"{", "\n">> \o JsonItemsIndented(rec, indent[1]) \o <<"}">>

\* -------------------------------------------------------------- to_json
RECURSIVE PadLines(_, _)
PadLines(lines, padding) ==
    IF lines = <<>> THEN <<>>
    ELSE padding \o Head(lines) \o PadLines(Tail(lines), padding)

to_json(comment, indent) ==
    LET comment_str == JsonDumps(comment, indent)
    IN  IF indent = None THEN comment_str
        ELSE LET padding == IF indent[1] # 0 THEN Spaces(2 * indent[1]) ELSE <<>>
             IN  PadLines(SplitLines(comment_str, <<>>), padding)

\* ------------------------------------------------------ pieces of main
\* The two tests of line 63 joined by `and` instead of `or`.
InvalidConfigAnd(y, u, o) == (~TruthyStr(y) /\ ~TruthyStr(u)) /\ ~TruthyStr(Some(o))

\* The test of line 63 asking for exactly one of the identifier and the URL.
InvalidConfigExactlyOne(y, u, o) == (TruthyStr(y) = TruthyStr(u)) \/ ~TruthyStr(Some(o))

\* line 63: the configuration test.
InvalidConfig(y, u, o) == (~TruthyStr(y) /\ ~TruthyStr(u)) \/ ~TruthyStr(Some(o))

\* line 66: os.path.sep in output.
HasDir(o) == o = "d/f"

\* line 83: the opening wrapper.
OpenWrapperText == <<"{", "\n">> \o Spaces(4)
                   \o <<"\"", "c", "o", "m", "m", "e", "n", "t", "s", "\"", ":", " ", "[", "\n">>

\* The closing wrapper without its leading line break.
CloseWrapperTextNoBreak == Spaces(4) \o <<"]", "\n", "}">>

\* line 106: the closing wrapper.
CloseWrapperText == <<"\n">> \o Spaces(4) \o <<"]", "\n", "}">>

\* line 87: indent=4 if pretty else None.
IndentOf(p) == IF p THEN Some(4) ELSE None

\* line 89: `limit and count >= limit`: the lookahead pull is skipped.
LimitReached(l, c) == TruthyInt(l) /\ c >= l[1]

\* line 86: `while comment`.
LoopTest(c) == TruthyDict(c)

\* lines 91-93: the separator.
WithSeparator(s, p, c) == IF p /\ c # None THEN Append(s, ",") ELSE s

\* lines 53-61, 107: main is declared `-> None` and has no return statement.
ReturnValue == None

VARIABLES
    youtubeid, url, output, pretty, limit,  \* the command's arguments
    seq,            \* the records the generator holds
    endless,        \* TRUE when the generator repeats seq without ever ending
    pc,             \* position in main
    outdir,         \* TRUE once os.makedirs has run
    generator,      \* None before construction, else <<number of records consumed>>
    pulls,          \* number of next(generator, None) calls issued
    count,          \* line 78
    fp,             \* "unopened", "open", "closed"
    fp_data,        \* the sequence of texts written to fp, one per write
    comment,        \* None or <<record>>
    comment_str,    \* text
    current,        \* the record whose text comment_str holds
    written,        \* the records whose text has been written to fp
    stdout          \* the counts reported by line 101

vars == <<youtubeid, url, output, pretty, limit, seq, endless, pc, outdir, generator, pulls,
          count, fp, fp_data, comment, comment_str, current, written, stdout>>

args == <<youtubeid, url, output, pretty, limit, seq, endless>>

RECURSIVE SeqsUpTo(_, _)
SeqsUpTo(S, n) ==
    IF n = 0 THEN {<<>>}
    ELSE LET shorter == SeqsUpTo(S, n - 1)
         IN  shorter \cup {Append(s, r) : s \in {t \in shorter : Len(t) = n - 1}, r \in S}

Init ==
    /\ youtubeid \in {None, Some(""), Some("id")}
    /\ url \in {None, Some(""), Some("u")}
    /\ output \in {"", "f", "d/f"}
    /\ pretty \in BOOLEAN
    /\ limit \in {None} \cup {Some(n) : n \in (-1)..MaxLimit}
    /\ seq \in SeqsUpTo(Records, MaxLen)
    /\ endless = FALSE
    /\ pc = "validate"
    /\ outdir = FALSE
    /\ generator = None
    /\ pulls = 0
    /\ count = 0
    /\ fp = "unopened"
    /\ fp_data = <<>>
    /\ comment = None
    /\ comment_str = <<>>
    /\ current = None
    /\ written = <<>>
    /\ stdout = <<>>

\* A run on a generator that never signals its end.
InitEndless ==
    /\ youtubeid \in {None, Some("id")}
    /\ url = Some("u")
    /\ output \in {"f", "d/f"}
    /\ pretty \in BOOLEAN
    /\ limit \in {None} \cup {Some(n) : n \in (-1)..MaxLimit}
    /\ seq \in SeqsUpTo(Records, MaxLen) \ {<<>>}
    /\ endless = TRUE
    /\ pc = "validate"
    /\ outdir = FALSE
    /\ generator = None
    /\ pulls = 0
    /\ count = 0
    /\ fp = "unopened"
    /\ fp_data = <<>>
    /\ comment = None
    /\ comment_str = <<>>
    /\ current = None
    /\ written = <<>>
    /\ stdout = <<>>

\* lines 63-64
Validate ==
    /\ pc = "validate"
    /\ pc' = IF InvalidConfig(youtubeid, url, output) THEN "config_error" ELSE "mkdirs"
    /\ UNCHANGED <<args, outdir, generator, pulls, count, fp, fp_data, comment,
                   comment_str, current, written, stdout>>

\* lines 66-68
MakeDirs ==
    /\ pc = "mkdirs"
    /\ outdir' = HasDir(output)
    /\ pc' = "construct"
    /\ UNCHANGED <<args, generator, pulls, count, fp, fp_data, comment,
                   comment_str, current, written, stdout>>

\* The count started at 0 instead of 1.
ConstructCountZero ==
    /\ pc = "construct"
    /\ generator' = Some(0)
    /\ count' = 0
    /\ pc' = "open"
    /\ UNCHANGED <<args, outdir, pulls, fp, fp_data, comment,
                   comment_str, current, written, stdout>>

\* lines 70-78
Construct ==
    /\ pc = "construct"
    /\ generator' = Some(0)
    /\ count' = 1
    /\ pc' = "open"
    /\ UNCHANGED <<args, outdir, pulls, fp, fp_data, comment,
                   comment_str, current, written, stdout>>

\* line 79: io.open succeeds and truncates the file
Open ==
    /\ pc = "open"
    /\ fp' = "open"
    /\ fp_data' = <<>>
    /\ pc' = "wrapper"
    /\ UNCHANGED <<args, outdir, generator, pulls, count, comment,
                   comment_str, current, written, stdout>>

\* line 79: io.open raises
OpenFails ==
    /\ pc = "open"
    /\ pc' = "failed"
    /\ UNCHANGED <<args, outdir, generator, pulls, count, fp, fp_data, comment,
                   comment_str, current, written, stdout>>

\* The opening wrapper written whatever the style.
WriteOpenWrapperAlways ==
    /\ pc = "wrapper"
    /\ fp_data' = Append(fp_data, OpenWrapperText)
    /\ pc' = "first"
    /\ UNCHANGED <<args, outdir, generator, pulls, count, fp, comment,
                   comment_str, current, written, stdout>>

\* lines 82-83
WriteOpenWrapper ==
    /\ pc = "wrapper"
    /\ fp_data' = IF pretty THEN Append(fp_data, OpenWrapperText) ELSE fp_data
    /\ pc' = "first"
    /\ UNCHANGED <<args, outdir, generator, pulls, count, fp, comment,
                   comment_str, current, written, stdout>>

\* line 83: fp.write raises
WriteOpenWrapperFails ==
    /\ pc = "wrapper"
    /\ pretty
    /\ pc' = "unwind"
    /\ UNCHANGED <<args, outdir, generator, pulls, count, fp, fp_data, comment,
                   comment_str, current, written, stdout>>

\* The pulls of an endless generator are explored up to MaxPulls.
CanPull == endless => pulls < MaxPulls

\* next(generator, None): the generator yields its next record, or ends.
Pull ==
    /\ CanPull
    /\ pulls' = pulls + 1
    /\ IF endless
       THEN /\ comment' = Some(seq[(generator[1] % Len(seq)) + 1])
            /\ generator' = Some(generator[1] + 1)
       ELSE IF generator[1] < Len(seq)
       THEN /\ comment' = Some(seq[generator[1] + 1])
            /\ generator' = Some(generator[1] + 1)
       ELSE /\ comment' = None
            /\ UNCHANGED generator

\* line 85
FirstPull ==
    /\ pc = "first"
    /\ Pull
    /\ pc' = "loop"
    /\ UNCHANGED <<args, outdir, count, fp, fp_data,
                   comment_str, current, written, stdout>>

\* line 85: the generator raises
FirstPullFails ==
    /\ pc = "first"
    /\ CanPull
    /\ pulls' = pulls + 1
    /\ pc' = "unwind"
    /\ UNCHANGED <<args, outdir, generator, count, fp, fp_data, comment,
                   comment_str, current, written, stdout>>

\* line 86
Loop ==
    /\ pc = "loop"
    /\ pc' = IF LoopTest(comment) THEN "encode" ELSE "close_wrapper"
    /\ UNCHANGED <<args, outdir, generator, pulls, count, fp, fp_data, comment,
                   comment_str, current, written, stdout>>

\* line 87
Encode ==
    /\ pc = "encode"
    /\ IF Serializable(comment[1])
       THEN /\ comment_str' = to_json(comment[1], IndentOf(pretty))
            /\ current' = comment
            /\ pc' = "lookahead"
       ELSE /\ pc' = "unwind"
            /\ UNCHANGED <<comment_str, current>>
    /\ UNCHANGED <<args, outdir, generator, pulls, count, fp, fp_data, comment,
                   written, stdout>>

\* The limit applied after the lookahead pull: the record is fetched, then dropped.
LookaheadSkipFetches ==
    /\ pc = "lookahead"
    /\ LimitReached(limit, count)
    /\ pulls' = pulls + 1
    /\ generator' = IF generator[1] < Len(seq) THEN Some(generator[1] + 1) ELSE generator
    /\ comment' = None
    /\ pc' = "separator"
    /\ UNCHANGED <<args, outdir, count, fp, fp_data,
                   comment_str, current, written, stdout>>

\* lines 88-90, the limit is reached: no pull
LookaheadSkip ==
    /\ pc = "lookahead"
    /\ LimitReached(limit, count)
    /\ comment' = None
    /\ pc' = "separator"
    /\ UNCHANGED <<args, outdir, generator, pulls, count, fp, fp_data,
                   comment_str, current, written, stdout>>

\* The lookahead pull fetching two records ahead when two remain.
LookaheadPullPrefetch ==
    /\ pc = "lookahead"
    /\ ~LimitReached(limit, count)
    /\ IF generator[1] + 1 < Len(seq)
       THEN /\ pulls' = pulls + 2
            /\ comment' = Some(seq[generator[1] + 1])
            /\ generator' = Some(generator[1] + 2)
       ELSE Pull
    /\ pc' = "separator"
    /\ UNCHANGED <<args, outdir, count, fp, fp_data,
                   comment_str, current, written, stdout>>

\* lines 88-90, the lookahead pull
LookaheadPull ==
    /\ pc = "lookahead"
    /\ ~LimitReached(limit, count)
    /\ Pull
    /\ pc' = "separator"
    /\ UNCHANGED <<args, outdir, count, fp, fp_data,
                   comment_str, current, written, stdout>>

\* The current record written before the lookahead pull, which then raises.
LookaheadPullFailsAfterWrite ==
    /\ pc = "lookahead"
    /\ ~LimitReached(limit, count)
    /\ pulls' = pulls + 1
    /\ fp_data' = Append(fp_data, comment_str)
    /\ written' = Append(written, current[1])
    /\ pc' = "unwind"
    /\ UNCHANGED <<args, outdir, generator, count, fp, comment,
                   comment_str, current, stdout>>

\* line 89: the generator raises
LookaheadPullFails ==
    /\ pc = "lookahead"
    /\ ~LimitReached(limit, count)
    /\ CanPull
    /\ pulls' = pulls + 1
    /\ pc' = "unwind"
    /\ UNCHANGED <<args, outdir, generator, count, fp, fp_data, comment,
                   comment_str, current, written, stdout>>

\* lines 91-93
Separator ==
    /\ pc = "separator"
    /\ comment_str' = WithSeparator(comment_str, pretty, comment)
    /\ pc' = "write"
    /\ UNCHANGED <<args, outdir, generator, pulls, count, fp, fp_data, comment,
                   current, written, stdout>>

\* lines 94-100: print(comment_str, file=fp, end="")
WriteRecord ==
    /\ pc = "write"
    /\ fp_data' = Append(fp_data, comment_str)
    /\ written' = Append(written, current[1])
    /\ pc' = "progress"
    /\ UNCHANGED <<args, outdir, generator, pulls, count, fp, comment,
                   comment_str, current, stdout>>

\* The text and its separator written by two writes, the second one raising.
WriteRecordFailsPartial ==
    /\ pc = "write"
    /\ fp_data' = Append(fp_data, to_json(current[1], IndentOf(pretty)))
    /\ pc' = "unwind"
    /\ UNCHANGED <<args, outdir, generator, pulls, count, fp, comment,
                   comment_str, current, written, stdout>>

\* lines 94-100: the write raises
WriteRecordFails ==
    /\ pc = "write"
    /\ pc' = "unwind"
    /\ UNCHANGED <<args, outdir, generator, pulls, count, fp, fp_data, comment,
                   comment_str, current, written, stdout>>

\* The report made with the count already incremented.
ProgressAfterIncrement ==
    /\ pc = "progress"
    /\ stdout' = Append(stdout, count + 1)
    /\ pc' = "incr"
    /\ UNCHANGED <<args, outdir, generator, pulls, count, fp, fp_data, comment,
                   comment_str, current, written>>

\* lines 101-102
Progress ==
    /\ pc = "progress"
    /\ stdout' = Append(stdout, count)
    /\ pc' = "incr"
    /\ UNCHANGED <<args, outdir, generator, pulls, count, fp, fp_data, comment,
                   comment_str, current, written>>

\* line 103
Increment ==
    /\ pc = "incr"
    /\ count' = count + 1
    /\ pc' = "loop"
    /\ UNCHANGED <<args, outdir, generator, pulls, fp, fp_data, comment,
                   comment_str, current, written, stdout>>

\* lines 105-106
WriteCloseWrapper ==
    /\ pc = "close_wrapper"
    /\ fp_data' = IF pretty THEN Append(fp_data, CloseWrapperText) ELSE fp_data
    /\ pc' = "exit"
    /\ UNCHANGED <<args, outdir, generator, pulls, count, fp, comment,
                   comment_str, current, written, stdout>>

\* line 106: fp.write raises
WriteCloseWrapperFails ==
    /\ pc = "close_wrapper"
    /\ pretty
    /\ pc' = "unwind"
    /\ UNCHANGED <<args, outdir, generator, pulls, count, fp, fp_data, comment,
                   comment_str, current, written, stdout>>

\* fp closed by a plain fp.close() after the loop, skipped by an exception.
ExitWithoutRelease ==
    /\ pc \in {"exit", "unwind"}
    /\ fp' = IF pc = "exit" THEN "closed" ELSE fp
    /\ pc' = IF pc = "exit" THEN "done" ELSE "failed"
    /\ UNCHANGED <<args, outdir, generator, pulls, count, fp_data, comment,
                   comment_str, current, written, stdout>>

\* line 79: leaving the `with` block closes fp, normally or on an exception;
\* line 107 follows a normal exit.
ExitWith ==
    /\ pc \in {"exit", "unwind"}
    /\ fp' = "closed"
    /\ pc' = IF pc = "exit" THEN "done" ELSE "failed"
    /\ UNCHANGED <<args, outdir, generator, pulls, count, fp_data, comment,
                   comment_str, current, written, stdout>>

Next ==
    \/ Validate
    \/ MakeDirs
    \/ Construct
    \/ Open
    \/ OpenFails
    \/ WriteOpenWrapper
    \/ WriteOpenWrapperFails
    \/ FirstPull
    \/ FirstPullFails
    \/ Loop
    \/ Encode
    \/ LookaheadSkip
    \/ LookaheadPull
    \/ LookaheadPullFails
    \/ Separator
    \/ WriteRecord
    \/ WriteRecordFails
    \/ Progress
    \/ Increment
    \/ WriteCloseWrapper
    \/ WriteCloseWrapperFails
    \/ ExitWith

Spec == Init /\ [][Next]_vars

SpecEndless == InitEndless /\ [][Next]_vars

TypeOK ==
    /\ pc \in {"validate", "config_error", "mkdirs", "construct", "open", "wrapper",
               "first", "loop", "encode", "lookahead", "separator", "write",
               "progress", "incr", "close_wrapper", "exit", "unwind", "done", "failed"}
    /\ fp \in {"unopened", "open", "closed"}
    /\ pulls \in 0..(MaxLen + MaxPulls)
    /\ count \in 0..(MaxLen + MaxPulls)

\* ------------------------------------------------ definitions for the claims
Min(a, b) == IF a <= b THEN a ELSE b

Max(a, b) == IF a >= b THEN a ELSE b

IsPrefix(s, t) == Len(s) <= Len(t) /\ SubSeq(t, 1, Len(s)) = s

EndsWith(s, c) == s # <<>> /\ s[Len(s)] = c

\* The producer holds no empty mapping.
NoEmptyRecord == \A i \in 1..Len(seq) : seq[i] # RecEmpty

\* In Array mode, after the closing wrapper: the texts written for records.
RecordBlocks == SubSeq(fp_data, 2, Len(fp_data) - 1)

\* Number of record blocks that end with the separator.
Separators(blocks) == Cardinality({i \in 1..Len(blocks) : EndsWith(blocks[i], ",")})

\* The texts a run without failures writes for the records from position i
\* on, when the running count is c (the loop of lines 86-103).
RECURSIVE FailureFreeBlocks(_, _)
FailureFreeBlocks(i, c) ==
    IF i > Len(seq) \/ seq[i] = RecEmpty THEN <<>>
    ELSE LET last == LimitReached(limit, c) \/ i = Len(seq)
             text == to_json(seq[i], IndentOf(pretty))
         IN  IF last THEN <<text>>
             ELSE <<IF pretty THEN Append(text, ",") ELSE text>> \o FailureFreeBlocks(i + 1, c + 1)

\* Everything a run without failures writes, one element per write.
FailureFreeOutput ==
    IF pretty THEN <<OpenWrapperText>> \o FailureFreeBlocks(1, 1) \o <<CloseWrapperText>>
    ELSE FailureFreeBlocks(1, 1)

\* C1: for a limit L >= 0 a run that completes writes exactly min(N, L)
\* records (stated here for producers that hold no empty mapping, where it
\* already fails: limit 0 is treated as no limit).
C1_MinRecords ==
    (pc = "done" /\ limit # None /\ limit[1] >= 0 /\ NoEmptyRecord)
        => Len(written) = Min(Len(seq), limit[1])

\* C2: in Array mode the number of separator commas is max(0, emitted - 1)
\* and the last record block before the closing wrapper carries no comma.
C2_NoTrailingComma ==
    (pc = "done" /\ pretty)
        => /\ Separators(RecordBlocks) = Max(0, Len(written) - 1)
           /\ RecordBlocks # <<>> => ~EndsWith(RecordBlocks[Len(RecordBlocks)], ",")

\* C3: in ND-JSON mode with no limit the output is N newline-terminated
\* lines, the i-th being the compact text of the i-th record (stated for
\* producers that hold no empty mapping).
C3_NdjsonLines ==
    (pc = "done" /\ ~pretty /\ limit = None /\ NoEmptyRecord)
        => Flatten(fp_data)
             = Flatten([i \in 1..Len(seq) |-> Append(to_json(seq[i], None), "\n")])

\* C4: with no limit the records written are exactly the producer's records,
\* once each and in order, whatever their content.
C4_AllRecordsInOrder ==
    (pc = "done" /\ limit = None)
        => /\ written = seq
           /\ Len(stdout) = Len(seq)

\* C5: fp is written only while it is open, stays closed once closed, and
\* is closed whenever a run that opened it ends, normally or by a failure.
C5_SinkReleased ==
    [][ /\ fp_data' # fp_data => (fp = "open" /\ fp' = "open")
        /\ fp = "closed" => fp' = "closed"
        /\ (pc' \in {"done", "failed"} /\ fp # "unopened") => fp' = "closed" ]_vars

C5_Witness == pc = "failed" /\ fp = "closed" /\ fp_data # <<>>

\* C6: after a failure nothing is pulled, written or reported, and what
\* was written is a prefix, in whole writes, of the failure-free output.
C6_FailureAborts ==
    [][ /\ pc \in {"unwind", "failed"}
            => /\ pc' \in {"unwind", "failed"}
               /\ pulls' = pulls /\ fp_data' = fp_data /\ stdout' = stdout
        /\ pc' \in {"unwind", "failed"} => IsPrefix(fp_data', FailureFreeOutput) ]_vars

C6_Witness == pc = "failed" /\ pretty /\ Len(written) = 2 /\ Len(seq) = 3

\* C7: for L >= 1 and a producer holding at least L records, the producer
\* is pulled exactly L times in a run that completes.
C7_PullsEqualLimit ==
    (pc = "done" /\ limit # None /\ limit[1] >= 1 /\ Len(seq) >= limit[1])
        => pulls = limit[1]

\* C8: with zero records a completed run leaves exactly the opening wrapper
\* followed by the closing wrapper (Array) or an empty file (ND-JSON), and
\* reports no progress.
C8_EmptySequence ==
    (pc = "done" /\ seq = <<>>)
        => /\ Flatten(fp_data)
                = IF pretty
                  THEN <<"{", "\n", " ", " ", " ", " ", "\"", "c", "o", "m", "m", "e",
                         "n", "t", "s", "\"", ":", " ", "[", "\n", "\n", " ", " ", " ",
                         " ", "]", "\n", "}">>
                  ELSE <<>>
           /\ written = <<>>
           /\ stdout = <<>>

C8_Witness == pc = "done" /\ seq = <<>> /\ pretty /\ Len(fp_data) = 2

\* C9: in Array mode, when a next record exists, the text written for the
\* current record is its encoded text followed by a comma and a newline
\* (stated for producers that hold no empty mapping).
C9_SeparatorAndNewline ==
    (pc = "progress" /\ pretty /\ comment # None /\ NoEmptyRecord)
        => fp_data[Len(fp_data)] = to_json(current[1], Some(4)) \o <<",", "\n">>

\* C10: when the identifier and the URL are both missing, or the output
\* path is missing, the run stops at the configuration error: no directory
\* is created, the file is not opened, the producer is never built or pulled.
MissingArg(o) == o = None \/ o = Some("")

C10_ConfigErrorBeforeIO ==
    ((MissingArg(youtubeid) /\ MissingArg(url)) \/ MissingArg(Some(output)))
        => /\ pc \in {"validate", "config_error"}
           /\ ~outdir
           /\ fp = "unopened" /\ fp_data = <<>>
           /\ generator = None /\ pulls = 0

C10_Witness == pc = "config_error" /\ output = "d/f" /\ ~outdir

\* C11 (as claimed): a completed run returns the final count, which equals
\* the number of records written.
C11_ReturnsCount ==
    pc = "done" => (ReturnValue = Some(count) /\ count = Len(written))

\* C11 (amended): main returns nothing; at completion the count is one more
\* than the number of records written, and the last progress report, if
\* any, carries the number of records written.
C11_CountOnePastWritten ==
    pc = "done"
        => /\ ReturnValue = None
           /\ count = Len(written) + 1
           /\ stdout # <<>> => stdout[Len(stdout)] = Len(written)

C11_Witness == pc = "done" /\ Len(written) = 2 /\ count = 3

\* The minimal JSON text of a record: items in record order, no whitespace,
\* characters as they are.
RECURSIVE MinimalItems(_)
MinimalItems(rec) ==
    IF rec = <<>> THEN <<>>
    ELSE LET it == rec[1]
             val == IF it.t = "s" THEN <<"\"", it.v, "\"">> ELSE <<it.v>>
             item == <<"\"", it.k, "\"", ":">> \o val
         IN  IF Len(rec) = 1 THEN item ELSE item \o <<",">> \o MinimalItems(Tail(rec))

MinimalJson(rec) == <<"{">> \o MinimalItems(rec) \o <<"}">>

\* A text with one space added after every ':' and every ','.
RECURSIVE SpaceAfterSeparators(_)
SpaceAfterSeparators(s) ==
    IF s = <<>> THEN <<>>
    ELSE IF Head(s) \in {":", ","} THEN <<Head(s), " ">> \o SpaceAfterSeparators(Tail(s))
    ELSE <<Head(s)>> \o SpaceAfterSeparators(Tail(s))

\* C12 (as claimed): the compact text of a record is its minimal JSON text,
\* no whitespace between tokens, non-ASCII unescaped, keys in record order.
C12_CompactMinimal ==
    (pc = "lookahead" /\ ~pretty) => comment_str = MinimalJson(current[1])

\* C12 (amended): the compact text is the minimal text with exactly one
\* space after each ':' and each ',', non-ASCII unescaped, keys in record
\* order.
C12_CompactDefaultSeparators ==
    (pc = "lookahead" /\ ~pretty) => comment_str = SpaceAfterSeparators(MinimalJson(current[1]))

C12_Witness == pc = "lookahead" /\ ~pretty /\ current = Some(RecB)

\* Number of records the generator has handed over.
Pulled == IF generator = None THEN 0 ELSE generator[1]

\* C13 (as claimed): the records pulled exceed the records written by at
\* most one, in every reachable state.
C13_OneAhead == Pulled - Len(written) <= 1

\* C13 (amended): the records pulled exceed the records written by at most
\* two, and by at most one except between the lookahead pull and the write
\* of the current record (or a failure in between).
C13_TwoAhead ==
    /\ Pulled - Len(written) <= 2
    /\ pc \notin {"separator", "write", "unwind", "failed"} => Pulled - Len(written) <= 1

C13_Witness == pc = "write" /\ Pulled = 3 /\ Len(written) = 1

\* C14: in Array mode the opening wrapper is the first write, made once and
\* before any pull or record; the closing wrapper is the last write, made
\* once, after the record blocks and only on normal completion; in ND-JSON
\* mode only record blocks are written.
C14_WrapperOrder ==
    /\ ~pretty => /\ Len(fp_data) = Len(written)
                  /\ \A i \in 1..Len(fp_data) :
                        fp_data[i] \notin {OpenWrapperText, CloseWrapperText}
    /\ pretty =>
          /\ (pulls > 0 \/ written # <<>>) => (fp_data # <<>> /\ fp_data[1] = OpenWrapperText)
          /\ \A i \in 2..Len(fp_data) : fp_data[i] # OpenWrapperText
          /\ \A i \in 1..(Len(fp_data) - 1) : fp_data[i] # CloseWrapperText
          /\ (fp_data # <<>> /\ fp_data[Len(fp_data)] = CloseWrapperText)
                => (pc \in {"exit", "done"} /\ Len(fp_data) = Len(written) + 2)
          /\ pc \in {"exit", "done"} => fp_data[Len(fp_data)] = CloseWrapperText

C14_Witness == pc = "done" /\ pretty /\ Len(written) = 2 /\ Len(fp_data) = 4

\* C15: progress is reported once per written record, after its write and
\* before the next iteration; the k-th report carries k, the number of
\* records written so far; a report leaves the file as it is.
C15_ProgressPerRecord ==
    [][ /\ \A i \in 1..Len(stdout') : stdout'[i] = i
        /\ Len(stdout') = IF pc' = "progress" THEN Len(written') - 1 ELSE Len(written')
        /\ stdout' # stdout
              => /\ stdout'[Len(stdout')] = Len(written)
                 /\ fp_data' = fp_data /\ fp' = fp /\ written' = written ]_vars

C15_Witness == pc = "incr" /\ stdout = <<1, 2>> /\ Len(written) = 2

\* C16 (as claimed): an invocation that supplies both the identifier and
\* the URL is rejected as a configuration error.
C16_BothRejected ==
    (~MissingArg(youtubeid) /\ ~MissingArg(url)) => pc \in {"validate", "config_error"}

\* C16 (amended): once validated, the run is at the configuration error
\* exactly when the identifier and the URL are both missing or the output
\* path is missing; supplying both is accepted.
C16_AtLeastOne ==
    pc # "validate"
        => (pc = "config_error"
              <=> ((MissingArg(youtubeid) /\ MissingArg(url)) \/ MissingArg(Some(output))))

C16_Witness == pc = "done" /\ youtubeid = Some("id") /\ url = Some("u")

\* C17: when the lookahead pull fails after k >= 1 records were pulled,
\* exactly the first k - 1 records have been written and the k-th, already
\* encoded, is never written; when the first pull fails only the Array
\* opening wrapper has been written.
C17_LookaheadFailure ==
    [][ /\ (pc = "lookahead" /\ pc' = "unwind")
              => /\ Pulled >= 1
                 /\ current = Some(seq[Pulled])
                 /\ comment_str = to_json(seq[Pulled], IndentOf(pretty))
                 /\ written' = SubSeq(seq, 1, Pulled - 1)
                 /\ Len(fp_data') = Len(written') + (IF pretty THEN 1 ELSE 0)
        /\ (pc = "first" /\ pc' = "unwind")
              => fp_data' = IF pretty THEN <<OpenWrapperText>> ELSE <<>>
        /\ pc \in {"unwind", "failed"} => (written' = written /\ fp_data' = fp_data) ]_vars

C17_Witness ==
    /\ pc = "failed" /\ Pulled = 2 /\ pulls = 3
    /\ comment = current /\ current # None /\ Len(written) = 1

\* C19: every pull is issued while fp is open, before any pull has returned
\* end-of-sequence or failed and before the limit has truncated the
\* sequence; the generator only moves forward, one record per pull.
C19_NoPullAfterExhaustion ==
    [][ /\ pulls' # pulls
              => /\ fp = "open"
                 /\ pulls' = pulls + 1
                 /\ pulls = Pulled
                 /\ pc = "first" \/ comment # None
                 /\ (pc # "first" /\ limit # None /\ limit[1] >= 1)
                       => Len(written) + 1 < limit[1]
        /\ (generator # None /\ generator' # generator)
              => /\ pulls' # pulls
                 /\ generator'[1] = generator[1] + 1
                 /\ comment' = Some(seq[generator'[1]]) ]_vars

C19_Witness == pc = "done" /\ limit = Some(2) /\ Len(seq) = 3 /\ pulls = 2 /\ Len(written) = 2

\* C18: on a generator that never signals its end the run completes only
\* when a limit L >= 1 is configured, and then after exactly L writes.
C18_EndlessStopsByLimitOnly ==
    (endless /\ pc = "done")
        => (limit # None /\ limit[1] >= 1 /\ Len(written) = limit[1])

====
